---- MODULE Spec2Model ----
(***************************************************************************)
(* Request handlers of the lung-disease classification API (app/main.py)   *)
(* over the two document collections `predictions` and `users`, the upload *)
(* directory and the classifier.  Every handler is split at the `await`s   *)
(* that touch shared state, so that handlers of different requests         *)
(* interleave exactly where the event loop lets them.                      *)
(***************************************************************************)
EXTENDS Integers, Sequences, FiniteSets, TLC

\* ------------------------------------------------------------------ bounds
MaxPreds == 2          \* stored PredictionResult documents
MaxUsers == 2          \* stored User documents
MaxClock == 1          \* ticks of the wall clock, storage
MaxDocs == 101         \* collection sizes of the paging specification

Procs == {1, 2}        \* concurrently dispatched request handlers
Emails == {"a@x.com", "b@x.com"}

\* ------------------------------------------------------- values and inputs
None == "None"         \* Python's None where a string is optional

Falsy(s) == s \in {None, ""}


\* the characters of the strings the handlers inspect
Chars(s) ==
    CASE s = "" -> << >>
      [] s = "image" -> <<"i", "m", "a", "g", "e">>
      [] s = "image/" -> <<"i", "m", "a", "g", "e", "/">>
      [] s = "image/png" -> <<"i", "m", "a", "g", "e", "/", "p", "n", "g">>
      [] s = "text/plain" -> <<"t", "e", "x", "t", "/", "p", "l", "a", "i", "n">>
      [] s = "x.png" -> <<"x", ".", "p", "n", "g">>
      [] s = "d/x.png" -> <<"d", "/", "x", ".", "p", "n", "g">>

\* str.startswith
StartsWith(s, prefix) ==
    /\ Len(Chars(prefix)) <= Len(Chars(s))
    /\ SubSeq(Chars(s), 1, Len(Chars(prefix))) = Chars(prefix)

\* a path separator in the client's filename makes open() look for a
\* directory that os.makedirs(UPLOAD_DIR) never created
HasSeparator(s) == \E i \in 1..Len(Chars(s)) : Chars(s)[i] = "/"

\* --------------------------------------------------------------- ObjectId
OidLen == 24
HexDigits == <<"0", "1", "2", "3", "4", "5", "6", "7", "8", "9",
               "a", "b", "c", "d", "e", "f">>
UpperHex == <<"A", "B", "C", "D", "E", "F">>

IsHex(c) ==
    \/ \E i \in 1..Len(HexDigits) : HexDigits[i] = c
    \/ \E i \in 1..Len(UpperHex) : UpperHex[i] = c

HexValue(c) ==
    IF \E i \in 1..Len(HexDigits) : HexDigits[i] = c
    THEN (CHOOSE i \in 1..Len(HexDigits) : HexDigits[i] = c) - 1
    ELSE (CHOOSE i \in 1..Len(UpperHex) : UpperHex[i] = c) + 9

\* str(ObjectId): the k-th generated identity, printed as 24 hex characters
OidStr(k) == [i \in 1..OidLen |-> IF i < OidLen THEN "0" ELSE HexDigits[k + 1]]

\* ObjectId(prediction_id) raises unless the string is 24 hex characters
ObjectIdValid(s) == Len(s) = OidLen /\ \A i \in 1..Len(s) : IsHex(s[i])

\* bytes.fromhex: the value the id is compared by
ObjectIdOf(s) == [i \in 1..Len(s) |-> HexValue(s[i])]

\* ------------------------------------------------------------- classifier
class_names == <<"00 Anatomia Normal", "01 Pneumonia", "02 Maior Densidade",
                 "03 Menor Densidade", "04 Obstrutivas", "05 Infecciosas",
                 "06 Encapsuladas", "07 Mediastino", "08 Torax">>

\* Image.open succeeds
Decodable(img) == img # "junk"

\* self.model.predict: the probability vector, in thousandths
ModelPredict(img) ==
    IF img = "xrayA"
    THEN <<700, 100, 50, 50, 20, 20, 20, 20, 20>>
    ELSE <<50, 300, 50, 300, 100, 50, 50, 50, 50>>

OriginalSize(img) == IF img = "xrayA" THEN <<256, 256>> ELSE <<512, 400>>

\* the arg-max taking the last index holding the maximum
ArgMax_Last(v) ==
    CHOOSE i \in 1..Len(v) :
        /\ \A j \in 1..Len(v) : v[j] <= v[i]
        /\ \A j \in (i + 1)..Len(v) : v[j] < v[i]

\* np.argmax: the first index holding the maximum
ArgMax(v) ==
    CHOOSE i \in 1..Len(v) :
        /\ \A j \in 1..Len(v) : v[j] <= v[i]
        /\ \A j \in 1..(i - 1) : v[j] < v[i]

Min(a, b) == IF a <= b THEN a ELSE b
Abs(a) == IF a < 0 THEN 0 - a ELSE a

\* {class_name: prob for class_name, prob in zip(class_names, predictions[0])}
Zip(names, probs) ==
    [c \in {names[i] : i \in 1..Min(Len(names), Len(probs))} |->
        probs[CHOOSE i \in 1..Min(Len(names), Len(probs)) : names[i] = c]]

\* the result dictionary built from the model's output row
PredictionOf(probs, size) ==
    LET idx == ArgMax(probs)
    IN [predicted_class |-> class_names[idx],
        confidence_score |-> probs[idx],
        all_predictions |-> Zip(class_names, probs),
        original_size |-> size]

\* LungDiseasePredictor.predict after its model check, for a decodable image
predict(img) == PredictionOf(ModelPredict(img), OriginalSize(img))

\* class DiseaseClass(str, Enum): the values; DiseaseClass(label) returns the
\* member whose value is the label and raises ValueError for any other string
DiseaseClass ==
    {"00 Anatomia Normal", "01 Pneumonia", "02 Maior Densidade",
     "03 Menor Densidade", "04 Obstrutivas", "05 Infecciosas",
     "06 Encapsuladas", "07 Mediastino", "08 Torax"}

\* ------------------------------------------------------------ credentials
hash_password(pw) == <<"bcrypt", pw>>
verify_password(pw, hashed) == hashed[1] = "bcrypt" /\ hashed[2] = pw
NoHash == << >>
create_access_token(subject, email) == <<"jwt", subject, email>>

\* ------------------------------------------------------------------ state
VARIABLES
    predictions,   \* the `predictions` collection, in insertion order
    users,         \* the `users` collection, in insertion order
    files,         \* names of the files in UPLOAD_DIR
    now,           \* the wall clock, storage, in microseconds
    boot,          \* the clock, storage when app.models.models was imported
    modelLoaded,   \* predictor.model is not None
    pc,            \* where each handler stands
    loc,           \* each handler's local variables
    resp,          \* the response a handler has just produced
    okPredicts,    \* history: successful predictions per submitter email (or None)
    registered,    \* history: emails of successful registrations
    lastPred,      \* history: id of the latest successful prediction
    use_cloudinary, \* StorageService.use_cloudinary
    cloud          \* public ids of the images held by Cloudinary

vars == <<predictions, users, files, now, boot, modelLoaded, pc, loc, resp,
          okPredicts, registered, lastPred, use_cloudinary, cloud>>

store == <<predictions, users, files>>
clock == <<now, boot, modelLoaded>>
history == <<okPredicts, registered, lastPred>>
storage == <<use_cloudinary, cloud>>

NoUserDoc ==
    [name |-> None, email |-> None, total_predictions |-> 0,
     hashed_password |-> NoHash, is_active |-> FALSE]

NoLoc == [email |-> None, name |-> None, password |-> None,
          rid |-> 0, user |-> 0, doc |-> NoUserDoc]

Response(op, arg, status, detail, body) ==
    [op |-> op, arg |-> arg, status |-> status, detail |-> detail, body |-> body]

NoResp == Response("none", << >>, 0, "", << >>)

\* HTTPException(status_code, detail); an exception no handler catches
\* leaves the framework to answer 500
HTTPException(op, arg, status, detail) == Response(op, arg, status, detail, << >>)
Unhandled(op, arg) == Response(op, arg, 500, "Internal Server Error", << >>)

\* class User(Document): the field defaults.  No handler reads or writes
\* User.created_at or User.is_admin, which are left out of the document
User(name, email, hashed) ==
    [name |-> name, email |-> email, total_predictions |-> 0,
     hashed_password |-> hashed, is_active |-> TRUE]

\* class PredictionResult(Document): created_at defaults to the value of
\* datetime.now() when the class body ran
PredictionResult(id, name, email, filename, result) ==
    [id |-> id, created_at |-> boot, user_name |-> name, user_email |-> email,
     image_filename |-> filename, image_size |-> result.original_size,
     predicted_class |-> result.predicted_class,
     confidence_score |-> result.confidence_score,
     all_predictions |-> result.all_predictions]

\* response DTO of one prediction
PredictionResponse(p) ==
    [prediction_id |-> OidStr(p.id), predicted_class |-> p.predicted_class,
     confidence_score |-> p.confidence_score,
     all_predictions |-> p.all_predictions, created_at |-> p.created_at]

\* the lookup with the query on the wrong field
FindOneUser_ByName(us, e) ==
    IF \E i \in 1..Len(us) : us[i].name = e
    THEN CHOOSE i \in 1..Len(us) :
             us[i].name = e /\ \A j \in 1..(i - 1) : us[j].name # e
    ELSE 0

\* User.find_one({"email": e}): position of the first match, 0 for none
FindOneUser(us, e) ==
    IF \E i \in 1..Len(us) : us[i].email = e
    THEN CHOOSE i \in 1..Len(us) :
             us[i].email = e /\ \A j \in 1..(i - 1) : us[j].email # e
    ELSE 0

\* f"{timestamp}_{filename}"; a document without a filename holds NoFilename
SafeName(ts, filename) == <<ts, filename>>
NoFilename == << >>

Idle(p) == pc[p] = "idle" /\ resp.op = "none"

\* handlers that may still insert a User
Inserters ==
    {q \in Procs : \/ pc[q] \in {"predict_find_user", "register_insert"}
                   \/ pc[q] = "predict_save_user" /\ loc[q].user = 0}

Init ==
    /\ predictions = << >>
    /\ users = << >>
    /\ files = {}
    /\ now = 0
    /\ boot = 0
    /\ modelLoaded \in BOOLEAN
    /\ pc = [p \in Procs |-> "idle"]
    /\ loc = [p \in Procs |-> NoLoc]
    /\ resp = NoResp
    /\ okPredicts = [e \in Emails \cup {None} |-> 0]
    /\ registered = {}
    /\ lastPred = 0
    /\ use_cloudinary = FALSE
    /\ cloud = {}

\* ------------------------------------------------------------ POST /predict
\* up to and including `await prediction_record.insert()`; In holds the sets
\* the request's fields are drawn from
predict_disease(p, In) ==
    /\ Idle(p)
    /\ \E ct \in In.content_types, fname \in In.filenames, img \in In.images,
          uname \in In.names, uemail \in In.emails :
        LET arg == [content_type |-> ct, filename |-> fname, image |-> img,
                    user_name |-> uname, user_email |-> uemail]
            user_name == IF Falsy(uname) THEN None ELSE uname
            user_email == IF Falsy(uemail) THEN None ELSE uemail
            safe_name == SafeName(now, fname)
            rid == Len(predictions) + 1
            fail(r) ==
                /\ resp' = r
                /\ UNCHANGED <<store, pc, loc, history>>
        IN  IF ct = None
            THEN fail(Unhandled("predict", arg))
            ELSE IF ~StartsWith(ct, "image/")
            THEN fail(HTTPException("predict", arg, 400, "File must be an image"))
            ELSE IF ~modelLoaded
            THEN fail(HTTPException("predict", arg, 500,
                                    "Prediction error: Model not loaded"))
            ELSE IF ~Decodable(img)
            THEN fail(HTTPException("predict", arg, 500,
                                    "Prediction error: Error making prediction"))
            ELSE IF ~Falsy(fname) /\ HasSeparator(fname)
            THEN fail(HTTPException("predict", arg, 500,
                                    "Prediction error: No such file or directory"))
            ELSE IF predict(img).predicted_class \notin DiseaseClass
            THEN /\ resp' = HTTPException("predict", arg, 500,
                                 "Prediction error: not a valid DiseaseClass")
                 /\ files' = IF ~Falsy(fname) THEN files \cup {safe_name}
                             ELSE files
                 /\ UNCHANGED <<predictions, users, pc, loc, history>>
            ELSE
                LET record == PredictionResult(rid, user_name, user_email,
                                  IF ~Falsy(fname) THEN safe_name ELSE NoFilename,
                                  predict(img))
                IN  /\ Len(predictions) < In.max_preds
                    /\ files' = IF ~Falsy(fname) THEN files \cup {safe_name}
                                ELSE files
                    /\ predictions' = Append(predictions, record)
                    /\ IF ~Falsy(user_email)
                       THEN /\ Len(users) + Cardinality(Inserters) < MaxUsers
                            /\ pc' = [pc EXCEPT ![p] = "predict_find_user"]
                            /\ loc' = [loc EXCEPT ![p] =
                                          [NoLoc EXCEPT !.email = user_email,
                                                        !.name = user_name,
                                                        !.rid = rid]]
                            /\ resp' = NoResp
                            /\ UNCHANGED lastPred
                       ELSE /\ resp' = Response("predict", arg, 200, "",
                                                PredictionResponse(record))
                            /\ lastPred' = rid
                            /\ UNCHANGED <<pc, loc>>
                    /\ okPredicts' = IF ~Falsy(user_email) THEN okPredicts
                                     ELSE [okPredicts EXCEPT ![None] = @ + 1]
                    /\ UNCHANGED <<users, registered>>
    /\ UNCHANGED <<clock, storage>>

\* `user = await User.find_one({"email": user_email})`
predict_find_user(p) ==
    /\ pc[p] = "predict_find_user"
    /\ resp.op = "none"
    /\ LET i == FindOneUser(users, loc[p].email)
       IN  loc' = [loc EXCEPT ![p].user = i,
                              ![p].doc = IF i = 0 THEN NoUserDoc ELSE users[i]]
    /\ pc' = [pc EXCEPT ![p] = "predict_save_user"]
    /\ UNCHANGED <<store, clock, storage, resp, history>>

\* the upsert also writing the submitter's default name into the stored
\* prediction
predict_save_user_Rewrites(p) ==
    /\ pc[p] = "predict_save_user"
    /\ resp.op = "none"
    /\ users' =
          IF loc[p].user # 0
          THEN [users EXCEPT ![loc[p].user] =
                   [loc[p].doc EXCEPT !.total_predictions = @ + 1]]
          ELSE Append(users, User(IF Falsy(loc[p].name) THEN "Anonymous"
                                  ELSE loc[p].name,
                                  loc[p].email, NoHash))
    /\ predictions' = [predictions EXCEPT ![loc[p].rid].user_name =
                          IF Falsy(loc[p].name) THEN "Anonymous" ELSE loc[p].name]
    /\ resp' = Response("predict", [user_email |-> loc[p].email], 200, "",
                        PredictionResponse(predictions[loc[p].rid]))
    /\ okPredicts' = [okPredicts EXCEPT ![loc[p].email] = @ + 1]
    /\ lastPred' = loc[p].rid
    /\ pc' = [pc EXCEPT ![p] = "idle"]
    /\ loc' = [loc EXCEPT ![p] = NoLoc]
    /\ UNCHANGED <<files, clock, storage, registered>>

\* `user.total_predictions += 1; await user.save()` writes the handler's copy
\* of the document back; otherwise `await user.insert()`; then the response
predict_save_user(p) ==
    /\ pc[p] = "predict_save_user"
    /\ resp.op = "none"
    /\ users' =
          IF loc[p].user # 0
          THEN [users EXCEPT ![loc[p].user] =
                   [loc[p].doc EXCEPT !.total_predictions = @ + 1]]
          ELSE Append(users, User(IF Falsy(loc[p].name) THEN "Anonymous"
                                  ELSE loc[p].name,
                                  loc[p].email, NoHash))
    /\ resp' = Response("predict", [user_email |-> loc[p].email], 200, "",
                        PredictionResponse(predictions[loc[p].rid]))
    /\ okPredicts' = [okPredicts EXCEPT ![loc[p].email] = @ + 1]
    /\ lastPred' = loc[p].rid
    /\ pc' = [pc EXCEPT ![p] = "idle"]
    /\ loc' = [loc EXCEPT ![p] = NoLoc]
    /\ UNCHANGED <<predictions, files, clock, storage, registered>>

\* --------------------------------------------------------- list endpoints
LimitCap == 100
RecentCount == 10

\* `if limit > 100: limit = 100`
ClampLimit(limit) == IF limit > LimitCap THEN LimitCap ELSE limit

\* number of documents a cursor with .skip(skip).limit(limit) yields out of
\* n matches: the driver reads limit 0 as "no limit" and a negative limit
\* as its absolute value
PageLen(n, skip, limit) ==
    LET avail == IF n > skip THEN n - skip ELSE 0
    IN  IF limit = 0 THEN avail ELSE Min(avail, Abs(limit))

\* the query with its filter dropped
Matching_Unfiltered(docs, filtered, e) == 1..Len(docs)

\* length of the page a list endpoint returns out of n matches
ListLen(n, skip, limit) == PageLen(n, skip, ClampLimit(limit))

\* positions of the documents matching {"user_email": e}; {} matches all
Matching(docs, filtered, e) ==
    {i \in 1..Len(docs) : ~filtered \/ docs[i].user_email = e}

\* every order in which the store may hand out the set m of documents
Orders(m) ==
    {o \in [1..Cardinality(m) -> m] :
        \A i, j \in 1..Cardinality(m) : i # j => o[i] # o[j]}

\* .sort([("created_at", -1)]): newest first, equal timestamps in any order
SortedOrders(docs, m) ==
    {o \in Orders(m) :
        \A i, j \in 1..Cardinality(m) :
            i < j => docs[o[i]].created_at >= docs[o[j]].created_at}

\* .skip(skip).limit(limit).to_list() for skip >= 0: the documents of one
\* page of the order o
Page(docs, o, skip, limit) ==
    [i \in 1..PageLen(Len(o), skip, limit) |-> docs[o[skip + i]]]

\* the responses of a list endpoint; a negative skip is refused by the store
ListResponse(op, arg, docs, filtered, e, skip, limit) ==
    IF skip < 0
    THEN {Unhandled(op, arg)}
    ELSE {Response(op, arg, 200, "",
                   [i \in 1..ListLen(Len(o), skip, limit) |->
                       PredictionResponse(Page(docs, o, skip, ClampLimit(limit))[i])]) :
             o \in SortedOrders(docs, Matching(docs, filtered, e))}

\* GET /predictions
list_predictions(p, In) ==
    /\ Idle(p)
    /\ \E skip \in In.skips, limit \in In.limits, email \in In.list_emails :
          resp' \in ListResponse("list_predictions",
                                 [skip |-> skip, limit |-> limit, email |-> email],
                                 predictions, ~Falsy(email), email, skip, limit)
    /\ UNCHANGED <<store, clock, storage, pc, loc, history>>

\* GET /user/{email}/predictions
list_predictions_by_email(p, In) ==
    /\ Idle(p)
    /\ \E skip \in In.skips, limit \in In.limits, email \in In.path_emails :
          resp' \in ListResponse("list_predictions_by_email",
                                 [skip |-> skip, limit |-> limit, email |-> email],
                                 predictions, TRUE, email, skip, limit)
    /\ UNCHANGED <<store, clock, storage, pc, loc, history>>

\* ------------------------------------------- GET /predictions/{id}/image
\* PredictionResult.get(obj_id): position of the document, 0 for none
GetPrediction(docs, oid) ==
    IF \E i \in 1..Len(docs) : ObjectIdOf(OidStr(docs[i].id)) = oid
    THEN CHOOSE i \in 1..Len(docs) : ObjectIdOf(OidStr(docs[i].id)) = oid
    ELSE 0

\* the handler answering a malformed id like an unknown one
ImageResponse_Malformed404(docs, fs, arg) ==
    LET i == GetPrediction(docs, ObjectIdOf(arg.prediction_id))
    IN  IF ~ObjectIdValid(arg.prediction_id)
        THEN HTTPException("image", arg, 404, "Image not found")
        ELSE IF i = 0 \/ docs[i].image_filename = NoFilename
        THEN HTTPException("image", arg, 404, "Image not found")
        ELSE IF docs[i].image_filename \notin fs
        THEN HTTPException("image", arg, 404, "Image file missing")
        ELSE Response("image", arg, 200, "", docs[i].image_filename)

ImageResponse(docs, fs, arg) ==
    LET i == GetPrediction(docs, ObjectIdOf(arg.prediction_id))
    IN  IF ~ObjectIdValid(arg.prediction_id)
        THEN HTTPException("image", arg, 400, "Invalid prediction id")
        ELSE IF i = 0 \/ docs[i].image_filename = NoFilename
        THEN HTTPException("image", arg, 404, "Image not found")
        ELSE IF docs[i].image_filename \notin fs
        THEN HTTPException("image", arg, 404, "Image file missing")
        ELSE Response("image", arg, 200, "", docs[i].image_filename)

\* the documents are never rewritten, so reading the document and testing
\* the file in one step loses no interleaving
get_prediction_image(p, In) ==
    /\ Idle(p)
    /\ \E prediction_id \in In.ids :
          resp' = ImageResponse(predictions, files,
                                [prediction_id |-> prediction_id])
    /\ UNCHANGED <<store, clock, storage, pc, loc, history>>

\* ------------------------------------------------------ health and stats
get_model_info ==
    [model_version |-> "1.0.0", classes |-> class_names,
     total_classes |-> Len(class_names)]

read_root(p) ==
    /\ Idle(p)
    /\ resp' = Response("root", << >>, 200, "", "1.0.0")
    /\ UNCHANGED <<store, clock, storage, pc, loc, history>>

health_check(p) ==
    /\ Idle(p)
    /\ resp' = Response("health", << >>, 200, "",
                        [status |-> "healthy", model |-> get_model_info,
                         timestamp |-> now])
    /\ UNCHANGED <<store, clock, storage, pc, loc, history>>

\* GET /stats; the count and the ten most recent documents
get_stats(p) ==
    /\ Idle(p)
    /\ \E o \in SortedOrders(predictions, Matching(predictions, FALSE, None)) :
          resp' = Response("stats", << >>, 200, "",
                           [total_predictions |-> Len(predictions),
                            recent_predictions |->
                                Page(predictions, o, 0, RecentCount),
                            model_info |-> get_model_info])
    /\ UNCHANGED <<store, clock, storage, pc, loc, history>>

\* ------------------------------------------------ GET /user/{email}/stats
\* the statistics computed without looking the user up
get_user_stats_NoLookup(p, In) ==
    /\ Idle(p)
    /\ \E email \in In.path_emails :
          /\ pc' = [pc EXCEPT ![p] = "user_stats_find"]
          /\ loc' = [loc EXCEPT ![p] = [NoLoc EXCEPT !.email = email]]
          /\ resp' = NoResp
    /\ UNCHANGED <<store, clock, storage, history>>

\* `user = await User.find_one({"email": email})`
get_user_stats(p, In) ==
    /\ Idle(p)
    /\ \E email \in In.path_emails :
          IF FindOneUser(users, email) = 0
          THEN /\ resp' = HTTPException("user_stats", [email |-> email], 404,
                                        "User not found")
               /\ UNCHANGED <<pc, loc>>
          ELSE /\ pc' = [pc EXCEPT ![p] = "user_stats_find"]
               /\ loc' = [loc EXCEPT ![p] = [NoLoc EXCEPT !.email = email]]
               /\ resp' = NoResp
    /\ UNCHANGED <<store, clock, storage, history>>

RECURSIVE SumConfidence(_, _)
SumConfidence(docs, o) ==
    IF o = << >> THEN 0
    ELSE docs[Head(o)].confidence_score + SumConfidence(docs, Tail(o))

\* prediction_counts[c] over the documents retrieved in the order o
CountOf(docs, o, c) ==
    Cardinality({i \in 1..Len(o) : docs[o[i]].predicted_class = c})

\* max(prediction_counts.items(), key=count)[0]: the dict keeps the labels
\* in the order they were first met and max keeps the first maximum
MostCommon(docs, o) ==
    LET first(c) == CHOOSE i \in 1..Len(o) :
                        /\ docs[o[i]].predicted_class = c
                        /\ \A j \in 1..(i - 1) : docs[o[j]].predicted_class # c
        labels == {docs[o[i]].predicted_class : i \in 1..Len(o)}
    IN  CHOOSE c \in labels :
            \A d \in labels \ {c} :
                \/ CountOf(docs, o, d) < CountOf(docs, o, c)
                \/ CountOf(docs, o, d) = CountOf(docs, o, c) /\ first(c) < first(d)

\* average_confidence is kept as the pair <<sum, count>>
UserStats(docs, o) ==
    IF o = << >>
    THEN [total_predictions |-> 0, most_common_prediction |-> None,
          average_confidence |-> <<0, 1>>]
    ELSE [total_predictions |-> Len(o),
          most_common_prediction |-> MostCommon(docs, o),
          average_confidence |-> <<SumConfidence(docs, o), Len(o)>>]

\* `predictions = await PredictionResult.find({"user_email": email}).to_list()`
\* in whatever order the store returns them, and the statistics over them
user_stats_find(p) ==
    /\ pc[p] = "user_stats_find"
    /\ resp.op = "none"
    /\ \E o \in Orders(Matching(predictions, TRUE, loc[p].email)) :
          resp' = Response("user_stats", [email |-> loc[p].email], 200, "",
                           UserStats(predictions, o))
    /\ pc' = [pc EXCEPT ![p] = "idle"]
    /\ loc' = [loc EXCEPT ![p] = NoLoc]
    /\ UNCHANGED <<store, clock, storage, history>>

\* ----------------------------------------------------- POST /auth/register
\* `existing = await User.find_one({"email": payload.email})`
register_user(p, In) ==
    /\ Idle(p)
    /\ \E name \in In.reg_names, email \in In.reg_emails,
          password \in In.passwords :
          IF FindOneUser(users, email) # 0
          THEN /\ resp' = HTTPException("register",
                                        [email |-> email, password |-> password],
                                        400, "Email already registered")
               /\ UNCHANGED <<pc, loc>>
          ELSE /\ Len(users) + Cardinality(Inserters) < MaxUsers
               /\ pc' = [pc EXCEPT ![p] = "register_insert"]
               /\ loc' = [loc EXCEPT ![p] =
                             [NoLoc EXCEPT !.email = email, !.name = name,
                                           !.password = password]]
               /\ resp' = NoResp
    /\ UNCHANGED <<store, clock, storage, history>>

\* the insert looking the address up once more and refusing a second user
register_insert_Rechecks(p) ==
    /\ pc[p] = "register_insert"
    /\ resp.op = "none"
    /\ IF FindOneUser(users, loc[p].email) # 0
       THEN /\ resp' = HTTPException("register",
                            [email |-> loc[p].email, password |-> loc[p].password],
                            400, "Email already registered")
            /\ UNCHANGED <<users, registered>>
       ELSE /\ users' = Append(users, User(loc[p].name, loc[p].email,
                                           hash_password(loc[p].password)))
            /\ resp' = Response("register",
                            [email |-> loc[p].email, password |-> loc[p].password],
                            200, "",
                            create_access_token(Len(users) + 1, loc[p].email))
            /\ registered' = registered \cup {loc[p].email}
    /\ pc' = [pc EXCEPT ![p] = "idle"]
    /\ loc' = [loc EXCEPT ![p] = NoLoc]
    /\ UNCHANGED <<predictions, files, clock, storage, okPredicts, lastPred>>

\* `await user.insert()` and the token
register_insert(p) ==
    /\ pc[p] = "register_insert"
    /\ resp.op = "none"
    /\ users' = Append(users, User(loc[p].name, loc[p].email,
                                   hash_password(loc[p].password)))
    /\ resp' = Response("register",
                        [email |-> loc[p].email, password |-> loc[p].password],
                        200, "",
                        create_access_token(Len(users) + 1, loc[p].email))
    /\ registered' = registered \cup {loc[p].email}
    /\ pc' = [pc EXCEPT ![p] = "idle"]
    /\ loc' = [loc EXCEPT ![p] = NoLoc]
    /\ UNCHANGED <<predictions, files, clock, storage, okPredicts, lastPred>>

\* -------------------------------------------------------- POST /auth/login
\* the handler testing the active flag before the password
LoginResponse_ActiveFirst(us, arg) ==
    LET i == FindOneUser(us, arg.email)
    IN  IF i = 0 \/ us[i].hashed_password = NoHash
        THEN HTTPException("login", arg, 401, "Invalid email or password")
        ELSE IF ~us[i].is_active
        THEN HTTPException("login", arg, 403, "User is inactive")
        ELSE IF ~verify_password(arg.password, us[i].hashed_password)
        THEN HTTPException("login", arg, 401, "Invalid email or password")
        ELSE Response("login", arg, 200, "", create_access_token(i, us[i].email))

LoginResponse(us, arg) ==
    LET i == FindOneUser(us, arg.email)
    IN  IF \/ i = 0
           \/ us[i].hashed_password = NoHash
           \/ ~verify_password(arg.password, us[i].hashed_password)
        THEN HTTPException("login", arg, 401, "Invalid email or password")
        ELSE IF ~us[i].is_active
        THEN HTTPException("login", arg, 403, "User is inactive")
        ELSE Response("login", arg, 200, "", create_access_token(i, us[i].email))

login_user(p, In) ==
    /\ Idle(p)
    /\ \E email \in In.reg_emails, password \in In.login_passwords :
          resp' = LoginResponse(users, [email |-> email, password |-> password])
    /\ UNCHANGED <<store, clock, storage, pc, loc, history>>

\* ------------------------------------------------------------ environment
\* the response leaves the server
SendResponse ==
    /\ resp.op # "none"
    /\ resp' = NoResp
    /\ UNCHANGED <<store, clock, storage, pc, loc, history>>

Tick ==
    /\ resp.op = "none"
    /\ now < MaxClock
    /\ now' = now + 1
    /\ UNCHANGED <<store, boot, modelLoaded, storage, pc, loc, resp, history>>

\* the server is stopped with no request in flight and started again: the
\* modules are imported anew, over the same model file
Restart ==
    /\ resp.op = "none"
    /\ \A p \in Procs : pc[p] = "idle"
    /\ boot # now
    /\ boot' = now
    /\ UNCHANGED <<store, now, modelLoaded, storage, pc, loc, resp, history>>

\* an operator clears User.is_active in the database; no endpoint does
Deactivate ==
    /\ resp.op = "none"
    /\ \E i \in 1..Len(users) :
          /\ users[i].is_active
          /\ users' = [users EXCEPT ![i].is_active = FALSE]
    /\ UNCHANGED <<predictions, files, clock, storage, pc, loc, resp, history>>

\* a file disappears from UPLOAD_DIR; no endpoint removes one
RemoveUpload ==
    /\ resp.op = "none"
    /\ \E f \in files : files' = files \ {f}
    /\ UNCHANGED <<predictions, users, clock, storage, pc, loc, resp, history>>

\* every endpoint, for the handlers In.procs and requests drawn from In
Handlers(In) ==
    \E p \in In.procs :
        \/ predict_disease(p, In)
        \/ predict_find_user(p)
        \/ predict_save_user(p)
        \/ list_predictions(p, In)
        \/ list_predictions_by_email(p, In)
        \/ get_prediction_image(p, In)
        \/ read_root(p)
        \/ health_check(p)
        \/ get_stats(p)
        \/ get_user_stats(p, In)
        \/ user_stats_find(p)
        \/ register_user(p, In)
        \/ register_insert(p)
        \/ login_user(p, In)

\* ---------------------------------------------------------- specifications
\* one request of each kind, one handler at a time
Plain ==
    [procs |-> {1}, max_preds |-> MaxPreds,
     content_types |-> {"image/png"}, filenames |-> {""}, images |-> {"xrayA"},
     names |-> {None}, emails |-> {None},
     skips |-> {0}, limits |-> {1}, list_emails |-> {None},
     path_emails |-> {"a@x.com"}, ids |-> {OidStr(1)},
     reg_names |-> {"Ann"}, reg_emails |-> {"a@x.com"},
     passwords |-> {"pw1"}, login_passwords |-> {"pw1"}]

\* accounts: registration, login, the users made by predictions
AccountInputs ==
    [Plain EXCEPT !.emails = Emails \cup {None, ""},
                  !.names = {None, "", "Ann"},
                  !.images = {"xrayA", "xrayB"},
                  !.path_emails = Emails,
                  !.reg_emails = Emails,
                  !.passwords = {"pw1", "pw2"},
                  !.login_passwords = {"pw1", "pw2"}]

NextAccounts == Handlers(AccountInputs) \/ SendResponse \/ Deactivate

SpecAccounts == Init /\ [][NextAccounts]_vars

\* listing: pages over predictions made before and after a restart
ListingInputs ==
    [Plain EXCEPT !.emails = {None, "a@x.com", "b@x.com"},
                  !.skips = {-1, 0, 1, 2},
                  !.limits = {-1, 0, 1, 2, 500},
                  !.list_emails = Emails \cup {None, ""},
                  !.path_emails = Emails]

NextListing == Handlers(ListingInputs) \/ SendResponse \/ Tick \/ Restart

SpecListing == Init /\ [][NextListing]_vars

\* uploads: what a prediction request may carry, and the stored images
UploadInputs ==
    [Plain EXCEPT !.content_types = {None, "", "image", "image/png", "text/plain"},
                  !.filenames = {"", "x.png", "d/x.png"},
                  !.images = {"xrayA", "junk"},
                  !.emails = {None, "a@x.com"},
                  !.ids = {OidStr(k) : k \in 1..(MaxPreds + 1)}
                              \cup {<<"1">>, [i \in 1..OidLen |-> "z"],
                                    [i \in 1..OidLen |-> "F"]}]

NextUploads == Handlers(UploadInputs) \/ SendResponse \/ Tick \/ RemoveUpload

SpecUploads == Init /\ [][NextUploads]_vars

\* every endpoint with two handlers in flight
ConcurrentInputs ==
    [Plain EXCEPT !.procs = Procs,
                  !.filenames = {"", "x.png"},
                  !.emails = {None, "a@x.com"},
                  !.passwords = {"pw1", "pw2"}]

Next == Handlers(ConcurrentInputs) \/ SendResponse \/ Deactivate \/ RemoveUpload

Spec == Init /\ [][Next]_vars

\* page lengths: the length of the page either list endpoint returns, for
\* collections of up to MaxDocs predictions made without email or file
PageSkips == {0, 1, 50}
PageLimits == {-500, -1, 0, 1, 10, 100, 101, 500}

InitPaging ==
    /\ \E n \in 0..MaxDocs :
          /\ predictions = [i \in 1..n |->
                               [id |-> i, created_at |-> 0, user_name |-> None,
                                user_email |-> None, image_filename |-> NoFilename,
                                image_size |-> predict("xrayA").original_size,
                                predicted_class |-> predict("xrayA").predicted_class,
                                confidence_score |-> predict("xrayA").confidence_score,
                                all_predictions |-> predict("xrayA").all_predictions]]
          /\ okPredicts = [e \in Emails \cup {None} |-> IF e = None THEN n ELSE 0]
          /\ lastPred = n
    /\ users = << >>
    /\ files = {}
    /\ now = 0
    /\ boot = 0
    /\ modelLoaded = TRUE
    /\ pc = [p \in Procs |-> "idle"]
    /\ loc = [p \in Procs |-> NoLoc]
    /\ resp = NoResp
    /\ registered = {}
    /\ use_cloudinary = FALSE
    /\ cloud = {}

\* the number of items of GET /predictions?skip=..&limit=..
list_length ==
    /\ resp.op = "none"
    /\ \E skip \in PageSkips, limit \in PageLimits :
          resp' = Response("list_length", [skip |-> skip, limit |-> limit],
                           200, "",
                           ListLen(Cardinality(Matching(predictions, FALSE, None)),
                                   skip, limit))
    /\ UNCHANGED <<store, clock, storage, pc, loc, history>>

NextPaging == list_length \/ SendResponse

SpecPaging == InitPaging /\ [][NextPaging]_vars

\* ------------------------------------------------------------------ claims
\* the documents with email e
UsersOf(e) == {i \in 1..Len(users) : users[i].email = e}

\* C1: once POST /auth/register has succeeded for an email, every later
\* POST /auth/register for it fails with Conflict (the 4xx "Email already
\* registered"), inserts no User and leaves every stored User, password hash
\* included, as it was.
C1_RegisterTwiceConflict ==
    [][(resp.op = "none" /\ resp'.op = "register"
            /\ resp'.arg.email \in registered)
        => /\ resp'.status = 400
           /\ resp'.detail = "Email already registered"
           /\ users' = users]_vars

\* a second registration with another password was refused
C1_Witness ==
    /\ resp.op = "register"
    /\ resp.status = 400
    /\ resp.arg.email \in registered
    /\ \E i \in UsersOf(resp.arg.email) :
          /\ users[i].hashed_password # NoHash
          /\ users[i].hashed_password # hash_password(resp.arg.password)

\* C2: POST /auth/login answers Unauthorized (401) when no user has the
\* email, the user has no password hash or the password does not match,
\* Forbidden (403) when the password matches a deactivated account, and a
\* token only when the password matches an active account; it changes no
\* User document.
C2_LoginOutcome ==
    [][(resp.op = "none" /\ resp'.op = "login")
        => LET e == resp'.arg.email
               pw == resp'.arg.password
               matches(i) == users[i].hashed_password = hash_password(pw)
           IN  /\ users' = users
               /\ resp'.status \in {200, 401, 403}
               /\ UsersOf(e) = {} => resp'.status = 401
               /\ \A i \in UsersOf(e) :
                     UsersOf(e) = {i} =>
                        /\ users[i].hashed_password = NoHash => resp'.status = 401
                        /\ ~matches(i) => resp'.status = 401
                        /\ matches(i) /\ ~users[i].is_active => resp'.status = 403
                        /\ matches(i) /\ users[i].is_active =>
                              /\ resp'.status = 200
                              /\ resp'.body = create_access_token(i, e)
               /\ resp'.status = 200 =>
                     \E i \in UsersOf(e) : matches(i) /\ users[i].is_active
               /\ resp'.status = 403 =>
                     \E i \in UsersOf(e) : matches(i) /\ ~users[i].is_active]_vars

\* a deactivated account was refused as Unauthorized for a wrong password
C2_Witness ==
    /\ resp.op = "login"
    /\ resp.status = 401
    /\ \E i \in UsersOf(resp.arg.email) :
          /\ users[i].hashed_password # NoHash
          /\ users[i].hashed_password # hash_password(resp.arg.password)
          /\ ~users[i].is_active

\* C3: the list endpoints return at most 100 items whatever limit is
\* requested, 0 and negative values included, and at most limit items for
\* 1 <= limit <= 100.
C3_LimitClamped ==
    resp.op = "list_length" =>
        /\ resp.body <= LimitCap
        /\ (1 <= resp.arg.limit /\ resp.arg.limit <= LimitCap)
              => resp.body <= resp.arg.limit

IsList(r) ==
    r.op \in {"list_predictions", "list_predictions_by_email"} /\ r.status = 200

\* the stored document a returned item stands for
DocOf(item) ==
    predictions[CHOOSE k \in 1..Len(predictions) :
                    OidStr(predictions[k].id) = item.prediction_id]

ItemIds(r) == {r.body[i].prediction_id : i \in 1..Len(r.body)}

\* C4: a returned page is newest-first, holds only items matching the email
\* filter, and shares no item with the page for skip+limit fetched from the
\* same collection.
C4_StablePagination ==
    IsList(resp) =>
        LET a == resp.arg
            filtered == resp.op = "list_predictions_by_email" \/ ~Falsy(a.email)
        IN  /\ \A i, j \in 1..Len(resp.body) :
                  i < j => resp.body[i].created_at >= resp.body[j].created_at
            /\ \A i \in 1..Len(resp.body) :
                  filtered => DocOf(resp.body[i]).user_email = a.email
            /\ \A next \in ListResponse(resp.op, a, predictions, filtered,
                                        a.email, a.skip + a.limit, a.limit) :
                  next.status = 200 => ItemIds(next) \cap ItemIds(resp) = {}

\* C5: GET /predictions?limit=1 after a successful POST /predict, with no
\* other predict in between, returns that prediction first.
C5_LatestFirst ==
    (/\ resp.op = "list_predictions"
     /\ resp.status = 200
     /\ resp.arg.skip = 0
     /\ resp.arg.limit = 1
     /\ Falsy(resp.arg.email)
     /\ lastPred # 0)
        => /\ Len(resp.body) = 1
           /\ resp.body[1].prediction_id = OidStr(lastPred)

\* C6: after n >= 1 sequential successful predictions with email e,
\* GET /user/e/stats succeeds and reports total_predictions = n.
C6_StatsCountPredictions ==
    (resp.op = "user_stats" /\ okPredicts[resp.arg.email] >= 1)
        => /\ resp.status = 200
           /\ resp.body.total_predictions = okPredicts[resp.arg.email]

\* the scenario: two predictions with a@x.com, then the statistics
C6_Witness ==
    /\ resp.op = "user_stats"
    /\ resp.arg.email = "a@x.com"
    /\ okPredicts["a@x.com"] = 2
    /\ resp.status = 200

\* C7: with no request in flight, the User created by a prediction with
\* email e holds total_predictions equal to the number of successful
\* predictions carrying e.
C7_RunningCount ==
    \A i \in 1..Len(users) :
        (users[i].hashed_password = NoHash /\ \A p \in Procs : pc[p] = "idle")
            => users[i].total_predictions = okPredicts[users[i].email]

WellFormedId(id) ==
    /\ Len(id) = 24
    /\ \A i \in 1..Len(id) :
          id[i] \in {"0", "1", "2", "3", "4", "5", "6", "7", "8", "9",
                     "a", "b", "c", "d", "e", "f", "A", "B", "C", "D", "E", "F"}

\* C8: GET /predictions/{id}/image answers InvalidInput (400) to a
\* malformed id, NotFound (404) to an id of no prediction, to a prediction
\* stored without an image filename and to one whose file is not in the
\* upload directory, and the file otherwise; it changes no document or file.
C8_ImageOutcome ==
    [][(resp.op = "none" /\ resp'.op = "image")
        => LET id == resp'.arg.prediction_id
               hits == {k \in 1..Len(predictions) : OidStr(predictions[k].id) = id}
           IN  /\ UNCHANGED store
               /\ ~WellFormedId(id) => resp'.status = 400
               /\ (WellFormedId(id) /\ hits = {}) => resp'.status = 404
               /\ \A k \in hits :
                     /\ predictions[k].image_filename = NoFilename
                           => resp'.status = 404
                     /\ (/\ predictions[k].image_filename # NoFilename
                         /\ predictions[k].image_filename \notin files)
                           => resp'.status = 404
                     /\ (/\ predictions[k].image_filename # NoFilename
                         /\ predictions[k].image_filename \in files)
                           => /\ resp'.status = 200
                              /\ resp'.body = predictions[k].image_filename]_vars

\* the image of a prediction stored without a filename was asked for
C8_Witness ==
    /\ resp.op = "image"
    /\ resp.status = 404
    /\ \E k \in 1..Len(predictions) :
          /\ OidStr(predictions[k].id) = resp.arg.prediction_id
          /\ predictions[k].image_filename = NoFilename

\* C9: POST /predict answers InvalidInput (400) to every upload whose
\* content type does not start with "image/", an absent content type
\* included.
C9_NonImageRejected ==
    (/\ resp.op = "predict"
     /\ "content_type" \in DOMAIN resp.arg
     /\ (resp.arg.content_type = None \/ ~StartsWith(resp.arg.content_type, "image/")))
        => resp.status = 400

RECURSIVE SumOver(_, _)
SumOver(f, S) ==
    IF S = {} THEN 0
    ELSE LET x == CHOOSE y \in S : TRUE IN f[x] + SumOver(f, S \ {x})

\* predictions whose document is stored and whose handler has not answered
Upserting == {p \in Procs : pc[p] \in {"predict_find_user", "predict_save_user"}}

\* C10: whatever the operations and their interleaving, the stored
\* PredictionResult documents only grow, one document per prediction that
\* succeeds, and no stored document changes.
C10_PredictionsImmutable ==
    [][/\ Len(predictions') >= Len(predictions)
       /\ Len(predictions') <= Len(predictions) + 1
       /\ \A i \in 1..Len(predictions) : predictions'[i] = predictions[i]
       /\ Len(predictions') = Len(predictions) + 1
             => \E p \in Procs :
                   /\ pc[p] = "idle"
                   /\ \/ pc'[p] = "predict_find_user"
                      \/ resp'.op = "predict" /\ resp'.status = 200
       /\ Len(predictions') =
             SumOver(okPredicts', DOMAIN okPredicts') + Cardinality(Upserting')]_vars

\* two predictions have succeeded and the statistics counted both
C10_Witness ==
    /\ resp.op = "stats"
    /\ resp.body.total_predictions = 2
    /\ okPredicts["a@x.com"] >= 1
    /\ \E i \in 1..Len(users) : users[i].total_predictions >= 1

\* ------------------------------------------------------ classifier outputs
MaxProb == 2           \* the model's outputs range over 0..MaxProb

\* predictor.predict on an arbitrary output row of the loaded model
predict_vector ==
    /\ resp.op = "none"
    /\ modelLoaded
    /\ \E probs \in [1..Len(class_names) -> 0..MaxProb] :
          resp' = Response("predict_vector", probs, 200, "",
                           PredictionOf(probs, <<256, 256>>))
    /\ UNCHANGED <<store, clock, storage, pc, loc, history>>

ClassifierInputs == [Plain EXCEPT !.images = {"xrayB"}]

NextClassifier ==
    \/ predict_vector
    \/ \E p \in ClassifierInputs.procs : predict_disease(p, ClassifierInputs)
    \/ SendResponse

SpecClassifier == Init /\ [][NextClassifier]_vars

LabelIndex(c) == CHOOSE i \in 1..Len(class_names) : class_names[i] = c

\* r names the label of the largest entry of r.all_predictions, the earliest
\* such label in the fixed order on ties, and carries that entry's value
TopLabelRelation(r) ==
    /\ DOMAIN r.all_predictions = {class_names[i] : i \in 1..Len(class_names)}
    /\ Cardinality(DOMAIN r.all_predictions) = 9
    /\ r.predicted_class \in DOMAIN r.all_predictions
    /\ r.confidence_score = r.all_predictions[r.predicted_class]
    /\ \A c \in DOMAIN r.all_predictions :
          /\ r.all_predictions[c] <= r.confidence_score
          /\ LabelIndex(c) < LabelIndex(r.predicted_class)
                => r.all_predictions[c] < r.confidence_score

\* C11: for every output row of the model, predict returns all_predictions
\* over exactly the 9 fixed labels with the row's values, predicted_class the
\* label at the lowest index holding the maximum, and confidence_score equal
\* to all_predictions[predicted_class]; every stored PredictionResult and
\* every successful /predict response keeps that relation
C11_PredictRelation ==
    /\ resp.op = "predict_vector" =>
          /\ TopLabelRelation(resp.body)
          /\ \A i \in 1..Len(class_names) :
                resp.body.all_predictions[class_names[i]] = resp.arg[i]
    /\ resp.op = "predict" /\ resp.status = 200 => TopLabelRelation(resp.body)
    /\ \A i \in 1..Len(predictions) : TopLabelRelation(predictions[i])

\* a row whose maximum is shared, first at the third label, was classified
\* while a prediction with a shared maximum is stored
C11_Witness ==
    /\ resp.op = "predict_vector"
    /\ resp.arg[1] < resp.arg[3] /\ resp.arg[2] < resp.arg[3]
    /\ resp.arg[3] = resp.arg[7]
    /\ \A i \in 1..Len(class_names) : resp.arg[i] <= resp.arg[3]
    /\ resp.body.predicted_class = class_names[3]
    /\ \E i \in 1..Len(predictions) :
          /\ predictions[i].predicted_class = class_names[2]
          /\ predictions[i].all_predictions[class_names[4]]
                = predictions[i].confidence_score

\* the stored predictions submitted with email e
PredictionsOf(e) == {i \in 1..Len(predictions) : predictions[i].user_email = e}

UpsertInputs ==
    [Plain EXCEPT !.procs = Procs,
                  !.max_preds = MaxPreds + 1,
                  !.emails = {"a@x.com"}]

NextUpsert ==
    \/ \E p \in UpsertInputs.procs :
          \/ predict_disease(p, UpsertInputs)
          \/ predict_find_user(p)
          \/ predict_save_user(p)
          \/ register_user(p, UpsertInputs)
          \/ register_insert(p)
    \/ SendResponse

SpecUpsert == Init /\ [][NextUpsert]_vars

\* C13: with overlapping predictions for one address the stored count may
\* miss increments, but it never decreases and no stored PredictionResult
\* is lost
C13_CountNeverDecreases ==
    [][/\ \A i \in 1..Len(users) :
            /\ i <= Len(users')
            /\ users'[i].total_predictions >= users[i].total_predictions
       /\ \A i \in 1..Len(predictions) :
            i <= Len(predictions') /\ predictions'[i] = predictions[i]]_vars

\* handlers whose lookup found no user and whose insert is still to come
FoundNone ==
    {p \in Procs : \/ pc[p] = "register_insert"
                   \/ pc[p] = "predict_save_user" /\ loc[p].user = 0}

\* C14: nothing enforces one User per address once lookups overlap: every
\* handler whose lookup found no user inserts a User with its address and
\* answers 200, whatever was inserted since the lookup, so two overlapping
\* requests for an unknown address leave two User documents with it
C14_InsertsUnchecked ==
    [][\A p \in FoundNone :
          pc'[p] = "idle" =>
              /\ Len(users') = Len(users) + 1
              /\ users'[Len(users')].email = loc[p].email
              /\ \A i \in 1..Len(users) : users'[i] = users[i]
              /\ resp'.status = 200]_vars

\* two registrations of one address have both succeeded
C14_Witness ==
    /\ Len(users) = 2
    /\ users[1].email = users[2].email
    /\ users[1].hashed_password # NoHash
    /\ users[2].hashed_password # NoHash
    /\ resp.op = "register"
    /\ resp.status = 200

\* ------------------------------------------------- failing storage and store
\* the request passes the content-type test and the classifier
Classified(ct, img) ==
    /\ ct # None
    /\ StartsWith(ct, "image/")
    /\ modelLoaded
    /\ Decodable(img)
    /\ predict(img).predicted_class \in DiseaseClass

\* the write failing after the PredictionResult was inserted
predict_write_fails_RecordFirst(p, In) ==
    /\ Idle(p)
    /\ Len(predictions) < In.max_preds
    /\ \E ct \in In.content_types, fname \in In.filenames, img \in In.images,
          uname \in In.names, uemail \in In.emails :
        LET arg == [content_type |-> ct, filename |-> fname, image |-> img,
                    user_name |-> uname, user_email |-> uemail]
        IN  /\ Classified(ct, img)
            /\ ~Falsy(fname) /\ ~HasSeparator(fname)
            /\ predictions' = Append(predictions,
                    PredictionResult(Len(predictions) + 1,
                        IF Falsy(uname) THEN None ELSE uname,
                        IF Falsy(uemail) THEN None ELSE uemail,
                        SafeName(now, fname), predict(img)))
            /\ resp' = HTTPException("predict", arg, 500,
                                     "Prediction error: No space left on device")
    /\ UNCHANGED <<users, files, clock, storage, pc, loc, history>>

\* os.makedirs or `with open(saved_path, "wb") as f: f.write(image_data)`
\* raising OSError: the file is left behind, empty or partial, when open
\* succeeded and write did not
predict_write_fails(p, In) ==
    /\ Idle(p)
    /\ \E ct \in In.content_types, fname \in In.filenames, img \in In.images,
          uname \in In.names, uemail \in In.emails, left \in BOOLEAN :
        LET arg == [content_type |-> ct, filename |-> fname, image |-> img,
                    user_name |-> uname, user_email |-> uemail]
        IN  /\ Classified(ct, img)
            /\ ~Falsy(fname) /\ ~HasSeparator(fname)
            /\ files' = IF left THEN files \cup {SafeName(now, fname)} ELSE files
            /\ resp' = HTTPException("predict", arg, 500,
                                     "Prediction error: No space left on device")
    /\ UNCHANGED <<predictions, users, clock, storage, pc, loc, history>>

\* `await prediction_record.insert()` raising: the image is already written
predict_insert_fails(p, In) ==
    /\ Idle(p)
    /\ \E ct \in In.content_types, fname \in In.filenames, img \in In.images,
          uname \in In.names, uemail \in In.emails :
        LET arg == [content_type |-> ct, filename |-> fname, image |-> img,
                    user_name |-> uname, user_email |-> uemail]
        IN  /\ Classified(ct, img)
            /\ Falsy(fname) \/ ~HasSeparator(fname)
            /\ files' = IF ~Falsy(fname) THEN files \cup {SafeName(now, fname)}
                        ELSE files
            /\ resp' = HTTPException("predict", arg, 500,
                                     "Prediction error: store unreachable")
    /\ UNCHANGED <<predictions, users, clock, storage, pc, loc, history>>

\* `await User.find_one(...)` raising: the PredictionResult is already stored
predict_find_user_fails(p) ==
    /\ pc[p] = "predict_find_user"
    /\ resp.op = "none"
    /\ resp' = HTTPException("predict", [user_email |-> loc[p].email], 500,
                             "Prediction error: store unreachable")
    /\ pc' = [pc EXCEPT ![p] = "idle"]
    /\ loc' = [loc EXCEPT ![p] = NoLoc]
    /\ UNCHANGED <<store, clock, storage, history>>

\* `await user.save()` or `await user.insert()` raising
predict_save_user_fails(p) ==
    /\ pc[p] = "predict_save_user"
    /\ resp.op = "none"
    /\ resp' = HTTPException("predict", [user_email |-> loc[p].email], 500,
                             "Prediction error: store unreachable")
    /\ pc' = [pc EXCEPT ![p] = "idle"]
    /\ loc' = [loc EXCEPT ![p] = NoLoc]
    /\ UNCHANGED <<store, clock, storage, history>>

FaultInputs ==
    [Plain EXCEPT !.content_types = {"image/png", "text/plain"},
                  !.filenames = {"", "x.png"},
                  !.images = {"xrayA", "junk"},
                  !.emails = {None, "a@x.com"}]

NextFaults ==
    \/ \E p \in FaultInputs.procs :
          \/ predict_disease(p, FaultInputs)
          \/ predict_find_user(p)
          \/ predict_save_user(p)
          \/ predict_write_fails(p, FaultInputs)
          \/ predict_insert_fails(p, FaultInputs)
          \/ predict_find_user_fails(p)
          \/ predict_save_user_fails(p)
    \/ SendResponse
    \/ Tick

SpecFaults == Init /\ [][NextFaults]_vars

\* the request behind the response r carried an upload
OfUpload(r) == r.op = "predict" /\ "image" \in DOMAIN r.arg

\* C15: POST /predict classifies, then stores the image, then persists.
\* Nothing is written unless the model is loaded, and a step that writes
\* and answers was handed a decodable image; a request whose classification
\* fails is answered with an error and leaves files, predictions and users
\* as they were; a stored PredictionResult that names an image has that
\* image in the upload directory; a handler at the User lookup or update
\* has its PredictionResult stored, and users change only there
C15_StageOrder ==
    [][/\ (files' # files \/ predictions' # predictions) =>
            /\ modelLoaded
            /\ OfUpload(resp') => Decodable(resp'.arg.image)
       /\ (resp.op = "none" /\ OfUpload(resp')
             /\ (~modelLoaded \/ ~Decodable(resp'.arg.image))) =>
            /\ resp'.status # 200
            /\ UNCHANGED <<predictions, users, files>>
       /\ \A i \in 1..Len(predictions') :
            predictions'[i].image_filename # NoFilename
                => predictions'[i].image_filename \in files'
       /\ \A p \in Upserting' :
            /\ loc'[p].rid \in 1..Len(predictions')
            /\ predictions'[loc'[p].rid].user_email = loc'[p].email
       /\ users' # users =>
            \E p \in Upserting : pc[p] = "predict_save_user" /\ pc'[p] = "idle"]_vars

\* an undecodable upload with a filename and an address was refused by the
\* loaded classifier while an earlier prediction, its image and its user
\* are stored, and an image without a PredictionResult is on disk
C15_Witness ==
    /\ OfUpload(resp)
    /\ resp.status = 500
    /\ modelLoaded
    /\ ~Decodable(resp.arg.image)
    /\ resp.arg.filename = "x.png"
    /\ resp.arg.user_email = "a@x.com"
    /\ Len(predictions) = 1
    /\ predictions[1].image_filename \in files
    /\ Len(users) = 1
    /\ \E f \in files : \A i \in 1..Len(predictions) :
          predictions[i].image_filename # f

\* C17: POST /predict is all-or-nothing: when a request is answered with an
\* error, the stored predictions are those of the successful and the
\* in-flight requests, every image in the upload directory belongs to a
\* stored prediction, and the users are as they were
C17_AllOrNothing ==
    [][(resp.op = "none" /\ resp'.op = "predict" /\ resp'.status # 200) =>
          /\ Len(predictions') =
                SumOver(okPredicts', DOMAIN okPredicts') + Cardinality(Upserting')
          /\ \A f \in files' :
                \E i \in 1..Len(predictions') : predictions'[i].image_filename = f
          /\ users' = users]_vars

\* ----------------------------------------------------------- StorageService
CLOUDINARY_FOLDER == "medical-ai/uploads"

\* datetime.now().strftime('%Y%m%d_%H%M%S_%f')
StorageStamp(ts) == <<"%Y%m%d_%H%M%S_%f", ts>>

\* f"{CLOUDINARY_FOLDER}/{timestamp}_{filename}"
PublicId(ts, filename) == <<CLOUDINARY_FOLDER, "/", StorageStamp(ts), "_", filename>>

\* f"{timestamp}_{filename}"
SafeFilename(ts, filename) == <<StorageStamp(ts), "_", filename>>

\* result['secure_url'] of an upload; a result without a URL holds NoUrl
SecureUrl(public_id) == <<"https://res.cloudinary.com", public_id>>
NoUrl == << >>

\* a call that returns a value, and one that raises to its caller
Returned(op, arg, value) == Response(op, arg, 200, "", value)
Raised(op, arg) == Response(op, arg, 500, "raised", << >>)

\* StorageService.__init__ over the environment's three credentials
InitStorage ==
    /\ predictions = << >>
    /\ users = << >>
    /\ files = {}
    /\ now = 0
    /\ boot = 0
    /\ modelLoaded \in BOOLEAN
    /\ pc = [p \in Procs |-> "idle"]
    /\ loc = [p \in Procs |-> NoLoc]
    /\ resp = NoResp
    /\ okPredicts = [e \in Emails \cup {None} |-> 0]
    /\ registered = {}
    /\ lastPred = 0
    /\ \E cloud_name \in {None, "", "demo"}, api_key \in {None, "", "key"},
          api_secret \in {None, "", "secret"} :
          use_cloudinary =
              (~Falsy(cloud_name) /\ ~Falsy(api_key) /\ ~Falsy(api_secret))
    /\ cloud = {}

\* open(file_path, "wb") finds the directory the name points into
Writable(filename) == ~HasSeparator(filename)

\* the upload letting a failure of the remote upload reach the caller
upload_image_Propagates(p, In) ==
    /\ Idle(p)
    /\ \E filename \in In.filenames, remote_ok \in BOOLEAN, disk_ok \in BOOLEAN,
          left \in BOOLEAN :
        LET arg == [filename |-> filename, remote_ok |-> remote_ok,
                    disk_ok |-> disk_ok]
            saved == disk_ok /\ Writable(filename)
        IN  IF use_cloudinary
            THEN /\ cloud' = IF remote_ok THEN cloud \cup {PublicId(now, filename)}
                             ELSE cloud
                 /\ resp' = IF remote_ok
                            THEN Returned("upload_image", arg,
                                     <<PublicId(now, filename),
                                       SecureUrl(PublicId(now, filename))>>)
                            ELSE Raised("upload_image", arg)
                 /\ UNCHANGED files
            ELSE /\ files' = IF saved \/ (left /\ Writable(filename))
                             THEN files \cup {SafeFilename(now, filename)}
                             ELSE files
                 /\ resp' = IF saved
                            THEN Returned("upload_image", arg,
                                     <<SafeFilename(now, filename), NoUrl>>)
                            ELSE Raised("upload_image", arg)
                 /\ UNCHANGED cloud
    /\ UNCHANGED <<predictions, users, clock, use_cloudinary, pc, loc, history>>

\* StorageService.upload_image with _upload_to_cloudinary and _save_locally:
\* the remote upload when configured, the local save otherwise and when the
\* remote upload raises; a failed local save is re-raised, and leaves the
\* file behind when open succeeded and write did not
upload_image(p, In) ==
    /\ Idle(p)
    /\ \E filename \in In.filenames, remote_ok \in BOOLEAN, disk_ok \in BOOLEAN,
          left \in BOOLEAN :
        LET arg == [filename |-> filename, remote_ok |-> remote_ok,
                    disk_ok |-> disk_ok]
            saved == disk_ok /\ Writable(filename)
        IN  IF use_cloudinary /\ remote_ok
            THEN /\ cloud' = cloud \cup {PublicId(now, filename)}
                 /\ resp' = Returned("upload_image", arg,
                                <<PublicId(now, filename),
                                  SecureUrl(PublicId(now, filename))>>)
                 /\ UNCHANGED files
            ELSE /\ files' = IF saved \/ (left /\ Writable(filename))
                             THEN files \cup {SafeFilename(now, filename)}
                             ELSE files
                 /\ resp' = IF saved
                            THEN Returned("upload_image", arg,
                                     <<SafeFilename(now, filename), NoUrl>>)
                            ELSE Raised("upload_image", arg)
                 /\ UNCHANGED cloud
    /\ UNCHANGED <<predictions, users, clock, use_cloudinary, pc, loc, history>>

StorageInputs == [Plain EXCEPT !.filenames = {"", "x.png", "d/x.png"}]

NextStorage ==
    \/ \E p \in StorageInputs.procs : upload_image(p, StorageInputs)
    \/ SendResponse
    \/ Tick

SpecStorage == InitStorage /\ [][NextStorage]_vars

\* C16: upload_image never lets a failure of the remote upload reach its
\* caller.  Configured and the remote upload succeeding, it returns the
\* object key <folder>/<timestamp>_<filename> and its URL; the remote
\* upload failing, or nothing configured, it returns the local name
\* <timestamp>_<filename> and no URL after saving the file locally; it
\* raises exactly when the local save it fell to has failed
C16_UploadOutcome ==
    resp.op = "upload_image" =>
        LET a == resp.arg
            remote == use_cloudinary /\ a.remote_ok
            local_failed == ~a.disk_ok \/ HasSeparator(a.filename)
        IN  /\ remote =>
                  /\ resp.status = 200
                  /\ \E ts \in 0..now :
                        /\ resp.body[1] = <<CLOUDINARY_FOLDER, "/",
                                            StorageStamp(ts), "_", a.filename>>
                        /\ resp.body[2] = SecureUrl(resp.body[1])
                  /\ resp.body[2] # NoUrl
                  /\ resp.body[1] \in cloud
            /\ (~remote /\ ~local_failed) =>
                  /\ resp.status = 200
                  /\ \E ts \in 0..now :
                        resp.body[1] = <<StorageStamp(ts), "_", a.filename>>
                  /\ resp.body[2] = NoUrl
                  /\ resp.body[1] \in files
            /\ resp.status # 200 <=> (~remote /\ local_failed)

\* configured, the remote upload failed and the image was saved locally
C16_Witness ==
    /\ resp.op = "upload_image"
    /\ use_cloudinary
    /\ ~resp.arg.remote_ok
    /\ resp.status = 200
    /\ resp.body[2] = NoUrl
    /\ resp.body[1] \in files
    /\ cloud # {}

\* C18: a User without a password hash, as the upsert of POST /predict
\* creates it, can never authenticate: its hash is never set, a login with
\* its address is answered 401 whatever the password, and a registration
\* that starts while it is stored is refused
C18_PasswordlessLocked ==
    [][\A i \in 1..Len(users) :
          users[i].hashed_password = NoHash =>
              /\ i <= Len(users')
              /\ users'[i].hashed_password = NoHash
              /\ (resp.op = "none" /\ resp'.op = "login"
                    /\ resp'.arg.email = users[i].email) => resp'.status = 401
              /\ \A p \in Procs :
                    (pc[p] = "idle" /\ pc'[p] = "register_insert")
                        => loc'[p].email # users[i].email
              /\ (resp.op = "none" /\ resp'.op = "register"
                    /\ resp'.arg.email = users[i].email
                    /\ \A p \in Procs : pc[p] = "idle") => resp'.status = 400]_vars

====
